---- MODULE Spec2Model ----
(***************************************************************************)
(* A model of fynesse/address.py: predict_price and the functions it       *)
(* calls (get_training_samples, convert_to_principle_components,           *)
(* cross_val), as one sequential program whose position is pc.             *)
(*                                                                         *)
(* Conventions.                                                            *)
(*  - Arrays and data frames are sequences; position p here is the code's  *)
(*    0-based position p-1, so label/position "first" is 1 here and 0 in   *)
(*    the code.                                                            *)
(*  - Coordinates are integers in units of 1e-7 degrees, dates are day     *)
(*    numbers.                                                             *)
(*  - A float is a record [n, d]: the rational n/d when d > 0, and the     *)
(*    IEEE specials when d = 0 (n > 0: inf, n < 0: -inf, n = 0: nan), which *)
(*    is what numpy scalar arithmetic yields on a division by zero.        *)
(*  - Every element of the feature and price arrays carries, beside its    *)
(*    value v, the index label "row" of the sample it was computed from;   *)
(*    the code never reads row, it only moves with the element.            *)
(***************************************************************************)
EXTENDS Integers, Sequences, FiniteSets, TLC

\* ------------------------------------------------------------------ bounds

\* The row limit predict_price passes to get_training_samples (500 in the
\* code), scaled down.
Limit == 3

\* The data source holds at most this many rows: one more than the limit, so
\* that the limit can cut rows off.
MaxRows == Limit + 1

\* Longest price/feature arrays handed directly to cross_val.
MaxN == 3

\* Longest explained_variance_ratio_ and its largest entry.
MaxLen == 3

MaxRatio == 3

MaxThreshold == MaxLen * MaxRatio + 1

\* ------------------------------------------------------- program constants

\* 1e-7 degrees, the coordinate tolerance of the target mask.
Tolerance == 1

\* area_range=0.02 degrees.
area_range == 200000

\* date_range=28 days.
date_range == 28

\* ------------------------------------------------------------------ floats

Abs(x) == IF x < 0 THEN -x ELSE x

Min(a, b) == IF a < b THEN a ELSE b

Sign(x) == IF x < 0 THEN -1 ELSE IF x > 0 THEN 1 ELSE 0

RECURSIVE GCD(_, _)
GCD(a, b) == IF b = 0 THEN a ELSE GCD(b, a % b)

\* The float n/d in lowest terms (d >= 0).
Norm(n, d) ==
    IF d = 0 THEN [n |-> Sign(n), d |-> 0]
    ELSE IF n = 0 THEN [n |-> 0, d |-> 1]
    ELSE LET g == GCD(Abs(n), d) IN [n |-> n \div g, d |-> d \div g]

F(k) == [n |-> k, d |-> 1]

NaN == [n |-> 0, d |-> 0]

Inf == [n |-> 1, d |-> 0]

IsNaN(a) == a.d = 0 /\ a.n = 0

IsInf(a) == a.d = 0 /\ a.n # 0

IsFinite(a) == a.d > 0

FAdd(a, b) ==
    IF IsNaN(a) \/ IsNaN(b) THEN NaN
    ELSE IF IsInf(a) /\ IsInf(b) THEN (IF a.n = b.n THEN a ELSE NaN)
    ELSE IF IsInf(a) THEN a
    ELSE IF IsInf(b) THEN b
    ELSE Norm(a.n * b.d + b.n * a.d, a.d * b.d)

FNeg(a) == [n |-> -a.n, d |-> a.d]

FSub(a, b) == FAdd(a, FNeg(b))

FAbs(a) == [n |-> Abs(a.n), d |-> a.d]

\* float * int
FMulInt(a, k) ==
    IF IsNaN(a) THEN NaN
    ELSE IF IsInf(a) THEN Norm(a.n * Sign(k), 0)
    ELSE Norm(a.n * k, a.d)

\* float / int, numpy semantics: x/0 is +-inf, 0/0 is nan, never an exception.
FDivInt(a, k) ==
    IF IsNaN(a) THEN NaN
    ELSE IF k = 0 THEN Norm(a.n, 0)
    ELSE IF IsInf(a) THEN Norm(a.n * Sign(k), 0)
    ELSE Norm(a.n * Sign(k), a.d * Abs(k))

\* ------------------------------------------------------------------ arrays

RECURSIVE SeqsUpTo(_, _)
SeqsUpTo(S, n) ==
    IF n = 0 THEN {<<>>}
    ELSE LET shorter == SeqsUpTo(S, n - 1)
         IN shorter \cup {Append(s, x) : s \in {t \in shorter : Len(t) = n - 1}, x \in S}

\* A deletion off by one: the element after position i goes (the last one
\* when i is the last).
NpDeleteNext(arr, i) ==
    [p \in 1..(Len(arr) - 1) |-> IF p < Min(i + 1, Len(arr)) THEN arr[p] ELSE arr[p + 1]]

\* np.delete(arr, i, axis=0): the array without the element at position i.
NpDelete(arr, i) ==
    [p \in 1..(Len(arr) - 1) |-> IF p < i THEN arr[p] ELSE arr[p + 1]]

Vals(arr) == [p \in 1..Len(arr) |-> arr[p].v]

RowsOf(arr) == [p \in 1..Len(arr) |-> arr[p].row]

RECURSIVE SumXY(_, _, _)
SumXY(X, y, p) ==
    IF p = 0 THEN 0 ELSE X[p].v * y[p].v + SumXY(X, y, p - 1)

RECURSIVE SumXX(_, _)
SumXX(X, p) ==
    IF p = 0 THEN 0 ELSE X[p].v * X[p].v + SumXX(X, p - 1)

RECURSIVE FSum(_, _)
FSum(s, p) ==
    IF p = 0 THEN F(0) ELSE FAdd(FSum(s, p - 1), s[p])

\* -------------------------------------------------------------- regression

\* sm.OLS(endog, exog) on zero observations: the library's data handling
\* reduces over the rows of exog and raises ValueError on a zero-size array.
OLSRaises(y, X) == Len(X) = 0

\* fit_regularized(alpha=penalty, L1_wt=0) is the ridge solution; for one
\* feature column and no intercept it is sum(x*y) / (sum(x*x) + alpha*nobs).
\* A singular design (all x zero, alpha 0) gives 0/0 = nan.
FitRegularized(y, X, alpha) ==
    Norm(SumXY(X, y, Len(X)), SumXX(X, Len(X)) + alpha * Len(X))

\* results.predict(target_features)[0]
Predict(params, x) == FMulInt(params, x.v)

\* 100 * abs(prediction - target_price) / target_price
PercentageError(prediction, tp) ==
    FDivInt(FMulInt(FAbs(FSub(prediction, F(tp))), 100), tp)

\* np.corrcoef(prices, predictions)[0][1], kept symbolic: the coefficient of
\* these two vectors.
CorrCoef(actual, predicted) == [actual |-> actual, predicted |-> predicted]

\* A record of one regression fit: who fitted, and on which rows.
FitRecord(by, held, y, X) == [by |-> by, held |-> held, y |-> y, X |-> X]

\* ------------------------------------------------------------- data source

Row(lat, lon, d, t, p, c) ==
    [latitude |-> lat, longitude |-> lon, date_of_transfer |-> d,
     property_type |-> t, price |-> p, pois |-> c]

\* The sale the request is about.
TargetRow == Row(0, 0, 0, "D", 2, 1)

\* Another sale at (almost) the same place on another day.
SamePlaceOtherDate == Row(1, -1, 3, "D", 1, 1)

Comparable == Row(500, -200, -5, "D", 3, 2)

ZeroPriced == Row(-300, 400, 7, "D", 0, 1)

OtherType == Row(0, 0, 0, "F", 2, 3)

OutOfWindow == Row(200001, 0, 0, "D", 1, 2)

RowPool ==
    {TargetRow, SamePlaceOtherDate, Comparable, ZeroPriced, OtherType, OutOfWindow}

\* The six conditions of the query: an inclusive window around the target.
InWindow(r, latitude, longitude, date) ==
    /\ r.date_of_transfer >= date - date_range
    /\ date + date_range >= r.date_of_transfer
    /\ r.latitude >= latitude - area_range
    /\ latitude + area_range >= r.latitude
    /\ r.longitude >= longitude - area_range
    /\ longitude + area_range >= r.longitude

RECURSIVE OrderedPick(_, _)
OrderedPick(w, P) ==
    IF P = {} THEN <<>>
    ELSE LET m == CHOOSE x \in P : \A y \in P : x <= y
         IN <<w[m]>> \o OrderedPick(w, P \ {m})

\* access.query_table(conn, table, conditions, limit): the rows that satisfy
\* the conditions, cut to at most limit rows; which rows survive the cut is
\* the data source's choice.
QueryTable(table, latitude, longitude, date, limit) ==
    LET w == SelectSeq(table, LAMBDA r : InWindow(r, latitude, longitude, date))
        k == Min(limit, Len(w))
    IN {OrderedPick(w, P) : P \in {Q \in SUBSET (1..Len(w)) : Cardinality(Q) = k}}

\* access.price_coordinates_data_to_df: a data frame with the default index,
\* label = position.
ToDf(rows) ==
    [p \in 1..Len(rows) |->
        [index |-> p, latitude |-> rows[p].latitude, longitude |-> rows[p].longitude,
         date_of_transfer |-> rows[p].date_of_transfer,
         property_type |-> rows[p].property_type,
         price |-> rows[p].price, pois |-> rows[p].pois]]

\* samples[samples.property_type == property_type]: rows keep their labels.
FilterType(df, property_type) ==
    SelectSeq(df, LAMBDA r : r.property_type = property_type)

\* The frame as it would be without the reset: labels of the query result.
ResetIndexDropped(df) == df

\* samples.reset_index(): labels become positions again.
ResetIndex(df) == [p \in 1..Len(df) |-> [df[p] EXCEPT !.index = p]]

\* ---------------------------------------------------- target identification

\* The boolean mask of line 21.
Mask(r, latitude, longitude, date, property_type) ==
    /\ latitude - Tolerance <= r.latitude /\ r.latitude <= latitude + Tolerance
    /\ longitude - Tolerance <= r.longitude /\ r.longitude <= longitude + Tolerance
    /\ r.date_of_transfer = date
    /\ r.property_type = property_type

\* Series.idxmax() of a boolean series: the label of the first True, and the
\* label of the first row when no entry is True. (It raises on an empty
\* series; the caller handles that.)
IdxMax(df, latitude, longitude, date, property_type) ==
    LET hits == {p \in 1..Len(df) : Mask(df[p], latitude, longitude, date, property_type)}
    IN IF hits = {} THEN df[1].index
       ELSE df[CHOOSE p \in hits : \A q \in hits : p <= q].index

\* ------------------------------------------------------------- compression

\* np.cumsum
RECURSIVE CumSum(_)
CumSum(s) ==
    IF s = <<>> THEN <<>>
    ELSE LET n == Len(s)
             c == CumSum(SubSeq(s, 1, n - 1))
         IN Append(c, (IF n = 1 THEN 0 ELSE c[n - 1]) + s[n])

\* np.argmax of a boolean array, 0-based: the first True, 0 when none is.
ArgMax(b) ==
    LET hits == {p \in 1..Len(b) : b[p]}
    IN IF hits = {} THEN 0
       ELSE (CHOOSE p \in hits : \A q \in hits : p <= q) - 1

\* A comparison that also accepts equality.
ExceedsOrEquals(explained_variance, thr) ==
    [p \in 1..Len(explained_variance) |-> explained_variance[p] >= thr]

\* explained_variance > threshold, elementwise
Exceeds(explained_variance, thr) ==
    [p \in 1..Len(explained_variance) |-> explained_variance[p] > thr]

\* cutoff = np.argmax(explained_variance > threshold) + 1
Cutoff(ratios, thr) == ArgMax(Exceeds(CumSum(ratios), thr)) + 1

\* pca.transform(df)[:, :cutoff] for one retained component: the score of a
\* sample is a function of its raw features (here its POI count).
Transform(r) == r.pois

\* A mean that guards the empty case instead of raising.
MeanNeverRaises(errors) == FALSE

\* len(percentage_errors) == 0 makes sum(...) / len(...) an int/int division
\* by zero: ZeroDivisionError.
MeanRaises(errors) == Len(errors) = 0

\* sum(percentage_errors) / len(percentage_errors)
Mean(errors) == FDivInt(FSum(errors, Len(errors)), Len(errors))

\* np.zeros(n)
Zeros(n) == [p \in 1..n |-> F(0)]

\* float(x): the number, or ValueError
FloatRaises(x) == ~x.ok

Float(x) == x.v

\* ------------------------------------------------------------------- state

VARIABLES
    db,                 \* the rows of prices_coordinates_data
    args,               \* the arguments of the call
    entry,              \* the function the caller called
    pc,                 \* position in the program
    exc,                \* the exception in flight or last raised ("none")
    returned,           \* how the call ended: "pending", "None", "tuple", "pair",
                        \* "matrix", or "raised" (an exception reached the caller)
    result,             \* the value returned
    printed,            \* the diagnostic of the except clause ("" if none)
    conn,               \* the connection: "none", "open", "closed"
    samples,            \* the data frame of get_training_samples / predict_price
    target_id,          \* label found by idxmax (0: not yet)
    pois_by_features,
    features,
    prices,
    target_features,
    target_price,
    cv_i,               \* cross_val's loop index
    predictions,
    percentage_errors,
    avg_percent_error,
    corr,
    fits,               \* every regression fitted so far
    evr,                \* pca.explained_variance_ratio_
    threshold,
    cutoff

vars == <<db, args, entry, pc, exc, returned, result, printed, conn, samples,
          target_id, pois_by_features, features, prices, target_features,
          target_price, cv_i, predictions, percentage_errors,
          avg_percent_error, corr, fits, evr, threshold, cutoff>>

env == <<db, args, entry, evr, threshold>>

frame == <<samples, target_id, pois_by_features>>

arrays == <<features, prices, target_features, target_price>>

loop == <<cv_i, predictions, percentage_errors>>

metrics == <<avg_percent_error, corr>>

Num(v) == [ok |-> TRUE, v |-> v]

Bad == [ok |-> FALSE, v |-> 0]

Request(lat, lon, date, penalty) ==
    [latitude |-> lat, longitude |-> lon, date |-> date,
     property_type |-> "D", penalty |-> penalty]

\* Calls of predict_price: the sale at (0, 0) on day 0, with and without a
\* penalty; a latitude that is no number; a date that is no date.
Requests ==
    {Request(Num(0), Num(0), Num(0), 0), Request(Num(0), Num(0), Num(0), 1),
     Request(Bad, Num(0), Num(0), 0), Request(Num(0), Num(0), Bad, 0)}

NoArgs == Request(Num(0), Num(0), Num(0), 0)

NoResult == [kind |-> "none"]

Elem(row, v) == [row |-> row, v |-> v]

\* Arrays of length n over the values S, each element tagged with its position.
Arrays(S, n) == {[p \in 1..n |-> Elem(p, f[p])] : f \in [1..n -> S]}

Blank ==
    /\ exc = "none" /\ returned = "pending" /\ result = NoResult /\ printed = ""
    /\ conn = "none" /\ samples = <<>> /\ target_id = 0 /\ pois_by_features = <<>>
    /\ target_features = Elem(0, 0) /\ target_price = 0
    /\ cv_i = 0 /\ predictions = <<>> /\ percentage_errors = <<>>
    /\ avg_percent_error = NaN /\ corr = CorrCoef(<<>>, <<>>) /\ fits = <<>>
    /\ cutoff = 0

\* A call of predict_price.
InitPredictPrice ==
    /\ entry = "predict_price" /\ pc = "start"
    /\ db \in SeqsUpTo(RowPool, MaxRows)
    /\ args \in Requests
    /\ features = <<>> /\ prices = <<>> /\ evr = <<>> /\ threshold = 0
    /\ Blank

\* A call of cross_val(prices, features, ridge, penalty) on arrays of equal
\* length.
InitCrossVal ==
    /\ entry = "cross_val" /\ pc = "cv_init"
    /\ db = <<>>
    /\ args \in {Request(Num(0), Num(0), Num(0), a) : a \in 0..1}
    /\ \E n \in 0..MaxN : /\ prices \in Arrays(0..2, n)
                          /\ features \in Arrays(0..2, n)
    /\ evr = <<>> /\ threshold = 0
    /\ Blank

\* convert_to_principle_components at the point where the PCA is fitted: the
\* library's explained_variance_ratio_ and the threshold are the inputs.
InitCompress ==
    /\ entry = "convert_to_principle_components" /\ pc = "pca"
    /\ db = <<>> /\ args = NoArgs
    /\ evr \in SeqsUpTo(0..MaxRatio, MaxLen) \ {<<>>}
    /\ threshold \in 0..MaxThreshold
    /\ features = <<>> /\ prices = <<>>
    /\ Blank

Init == InitPredictPrice \/ InitCrossVal \/ InitCompress

\* ----------------------------------------------------------------- actions

\* An exception raised below predict_price's try is caught by its except
\* clause (lines 17, 44); one raised in a function called on its own reaches
\* the caller.
Raise(e) ==
    /\ exc' = e
    /\ IF entry = "predict_price"
       THEN pc' = "except" /\ returned' = returned
       ELSE pc' = "done" /\ returned' = "raised"

\* Lines 15-16: the float conversions, before the try.
ConvertInputs ==
    /\ pc = "start"
    /\ IF FloatRaises(args.latitude) \/ FloatRaises(args.longitude)
       THEN exc' = "ValueError" /\ returned' = "raised" /\ pc' = "done"
       ELSE exc' = exc /\ returned' = returned /\ pc' = "credentials"
    /\ UNCHANGED <<env, result, printed, conn, frame, arrays, loop, metrics, fits, cutoff>>

\* Line 70: access.get_credentials, which may fail.
GetCredentials ==
    /\ pc = "credentials"
    /\ \E fail \in BOOLEAN :
          IF fail THEN Raise("CredentialsError")
          ELSE pc' = "connect" /\ UNCHANGED <<exc, returned>>
    /\ UNCHANGED <<env, result, printed, conn, frame, arrays, loop, metrics, fits, cutoff>>

\* Line 71: access.create_connection, which may fail.
CreateConnection ==
    /\ pc = "connect"
    /\ \E fail \in BOOLEAN :
          IF fail THEN Raise("ConnectionError") /\ conn' = conn
          ELSE pc' = "conditions" /\ conn' = "open" /\ UNCHANGED <<exc, returned>>
    /\ UNCHANGED <<env, result, printed, frame, arrays, loop, metrics, fits, cutoff>>

\* Lines 72-76: the conditions; date - relativedelta(...) raises TypeError
\* when date is no date.
BuildConditions ==
    /\ pc = "conditions"
    /\ IF ~args.date.ok THEN Raise("TypeError")
       ELSE pc' = "query" /\ UNCHANGED <<exc, returned>>
    /\ UNCHANGED <<env, result, printed, conn, frame, arrays, loop, metrics, fits, cutoff>>

\* Line 77: the query and its conversion to a data frame; either may fail.
Query ==
    /\ pc = "query"
    /\ \/ /\ Raise("DataAccessError")
          /\ samples' = samples
       \/ /\ \E rows \in QueryTable(db, Float(args.latitude), Float(args.longitude),
                                    args.date.v, Limit) :
                samples' = ToDf(rows)
          /\ pc' = "close"
          /\ UNCHANGED <<exc, returned>>
    /\ UNCHANGED <<env, result, printed, conn, target_id, pois_by_features,
                   arrays, loop, metrics, fits, cutoff>>

\* Lines 78-81: close the connection, keep the rows of the requested type,
\* reset the index, return.
CloseFilterReset ==
    /\ pc = "close"
    /\ conn' = "closed"
    /\ samples' = ResetIndex(FilterType(samples, args.property_type))
    /\ pc' = "identify"
    /\ UNCHANGED <<env, exc, returned, result, printed, target_id, pois_by_features,
                   arrays, loop, metrics, fits, cutoff>>

\* Line 21: target_id = (mask).idxmax(); idxmax of an empty series raises
\* ValueError.
IdentifyTarget ==
    /\ pc = "identify"
    /\ IF samples = <<>>
       THEN Raise("ValueError") /\ target_id' = target_id
       ELSE /\ target_id' = IdxMax(samples, Float(args.latitude), Float(args.longitude),
                                   args.date.v, args.property_type)
            /\ pc' = "pois"
            /\ UNCHANGED <<exc, returned>>
    /\ UNCHANGED <<env, result, printed, conn, samples, pois_by_features,
                   arrays, loop, metrics, fits, cutoff>>

\* Lines 25-28: one POI query per sample, at the sample's own coordinates;
\* the POI service may fail.
ExtractPois ==
    /\ pc = "pois"
    /\ \/ Raise("POIError") /\ pois_by_features' = pois_by_features
       \/ /\ pois_by_features' = [p \in 1..Len(samples) |-> samples[p].pois]
          /\ pc' = "compress"
          /\ UNCHANGED <<exc, returned>>
    /\ UNCHANGED <<env, result, printed, conn, samples, target_id,
                   arrays, loop, metrics, fits, cutoff>>

\* Lines 29-30: property_feature_map and convert_to_principle_components.
\* With fewer than two samples every correlation is undefined, every column
\* is dropped and the PCA raises; with more, the PCA may still fail on
\* degenerate features.
Compress ==
    /\ pc = "compress"
    /\ \/ Raise("DegenerateFeatureError") /\ features' = features
       \/ /\ Len(samples) >= 2
          /\ features' = [p \in 1..Len(samples) |-> Elem(samples[p].index, Transform(samples[p]))]
          /\ pc' = "split"
          /\ UNCHANGED <<exc, returned>>
    /\ UNCHANGED <<env, result, printed, conn, frame, prices, target_features,
                   target_price, loop, metrics, fits, cutoff>>

\* samples['price'].to_numpy()
PriceArray(df) == [p \in 1..Len(df) |-> Elem(df[p].index, df[p].price)]

\* Lines 31-35: take the target's features and price out of the arrays.
\* features[target_id] raises IndexError when target_id is no position.
SplitTarget ==
    /\ pc = "split"
    /\ IF target_id > Len(features)
       THEN Raise("IndexError") /\ UNCHANGED arrays
       ELSE /\ target_features' = features[target_id]
            /\ features' = NpDelete(features, target_id)
            /\ target_price' = PriceArray(samples)[target_id].v
            /\ prices' = NpDelete(PriceArray(samples), target_id)
            /\ pc' = "cv_init"
            /\ UNCHANGED <<exc, returned>>
    /\ UNCHANGED <<env, result, printed, conn, frame, loop, metrics, fits, cutoff>>

\* Lines 51-52 of cross_val.
CrossValInit ==
    /\ pc = "cv_init"
    /\ predictions' = Zeros(Len(prices))
    /\ percentage_errors' = <<>>
    /\ cv_i' = 1
    /\ pc' = "cv_loop"
    /\ UNCHANGED <<env, exc, returned, result, printed, conn, frame, arrays,
                   metrics, fits, cutoff>>

\* Lines 53-62: one iteration of the leave-one-out loop.
CrossValIter ==
    /\ pc = "cv_loop"
    /\ cv_i <= Len(features)
    /\ LET target_price_i == prices[cv_i].v
           train_features == NpDelete(features, cv_i)
           train_prices == NpDelete(prices, cv_i)
           prediction == Predict(FitRegularized(train_prices, train_features, args.penalty),
                                 features[cv_i])
       IN IF OLSRaises(train_prices, train_features)
          THEN Raise("ValueError") /\ UNCHANGED <<loop, fits>>
          ELSE /\ fits' = Append(fits, FitRecord("cross_val", cv_i, train_prices, train_features))
               /\ predictions' = [predictions EXCEPT ![cv_i] = prediction]
               /\ percentage_errors' =
                     Append(percentage_errors, PercentageError(prediction, target_price_i))
               /\ cv_i' = cv_i + 1
               /\ UNCHANGED <<pc, exc, returned>>
    /\ UNCHANGED <<env, result, printed, conn, frame, arrays, metrics, cutoff>>

\* Lines 63-65: the correlation, the average, the return.
CrossValFinish ==
    /\ pc = "cv_loop"
    /\ cv_i > Len(features)
    /\ IF MeanRaises(percentage_errors)
       THEN Raise("ZeroDivisionError") /\ UNCHANGED <<metrics, result>>
       ELSE /\ corr' = CorrCoef(Vals(prices), predictions)
            /\ avg_percent_error' = Mean(percentage_errors)
            /\ exc' = exc
            /\ IF entry = "cross_val"
               THEN /\ returned' = "pair"
                    /\ result' = [kind |-> "pair", avg_pct_error |-> avg_percent_error',
                                  corr |-> corr']
                    /\ pc' = "done"
               ELSE /\ returned' = returned
                    /\ result' = result
                    /\ pc' = "fit"
    /\ UNCHANGED <<env, printed, conn, frame, arrays, loop, fits, cutoff>>

\* Lines 37-43: the final fit on the arrays without the target, the
\* prediction, the returned tuple.
FinalFit ==
    /\ pc = "fit"
    /\ IF OLSRaises(prices, features)
       THEN Raise("ValueError") /\ UNCHANGED <<result, fits>>
       ELSE LET prediction == Predict(FitRegularized(prices, features, args.penalty),
                                      target_features)
            IN /\ fits' = Append(fits, FitRecord("predict_price", 0, prices, features))
               /\ result' = [kind |-> "tuple", prediction |-> prediction,
                             target_price |-> target_price,
                             avg_percent_error |-> avg_percent_error, corr |-> corr]
               /\ returned' = "tuple"
               /\ pc' = "done"
               /\ exc' = exc
    /\ UNCHANGED <<env, printed, conn, frame, arrays, loop, metrics, cutoff>>

\* Lines 44-45: print the diagnostic; the function ends and returns None.
Except ==
    /\ pc = "except"
    /\ printed' = exc
    /\ returned' = "None"
    /\ pc' = "done"
    /\ UNCHANGED <<env, exc, result, conn, frame, arrays, loop, metrics, fits, cutoff>>

\* Lines 93-95: the cumulative explained variance and the cutoff.
SelectComponents ==
    /\ pc = "pca"
    /\ cutoff' = Cutoff(evr, threshold)
    /\ returned' = "matrix"
    /\ pc' = "done"
    /\ UNCHANGED <<env, exc, result, printed, conn, frame, arrays, loop, metrics, fits>>

Next ==
    \/ ConvertInputs
    \/ GetCredentials
    \/ CreateConnection
    \/ BuildConditions
    \/ Query
    \/ CloseFilterReset
    \/ IdentifyTarget
    \/ ExtractPois
    \/ Compress
    \/ SplitTarget
    \/ CrossValInit
    \/ CrossValIter
    \/ CrossValFinish
    \/ FinalFit
    \/ Except
    \/ SelectComponents

Spec == Init /\ [][Next]_vars

\* ------------------------------------------------------------------ claims

InPredictPrice == entry = "predict_price"

InCrossVal == entry = "cross_val"

Lat == Float(args.latitude)

Lon == Float(args.longitude)

IsTarget(r) == Mask(r, Lat, Lon, args.date.v, args.property_type)

\* The rows of the frame that match the target.
Matches == {p \in 1..Len(samples) : IsTarget(samples[p])}

\* predict_price has left line 21 with a target_id.
Identified == InPredictPrice /\ target_id # 0

\* The row of the frame labelled target_id.
Chosen == samples[CHOOSE p \in 1..Len(samples) : samples[p].index = target_id]

CloseCoordinates(r) ==
    /\ Lat - Tolerance <= r.latitude /\ r.latitude <= Lat + Tolerance
    /\ Lon - Tolerance <= r.longitude /\ r.longitude <= Lon + Tolerance

NoRowOf(arr, label) == \A p \in 1..Len(arr) : arr[p].row # label

\* C1: in predict_price, no regression fit (leave-one-out or final) and no
\* array handed to cross_val holds the feature row or the price of the row
\* identified as the target (the row labelled target_id).
C1_TargetNeverFitted ==
    Identified =>
        /\ \A k \in 1..Len(fits) :
              NoRowOf(fits[k].X, target_id) /\ NoRowOf(fits[k].y, target_id)
        /\ pc \in {"cv_init", "cv_loop", "fit"} =>
              NoRowOf(features, target_id) /\ NoRowOf(prices, target_id)

\* C1 witness: a prediction was returned after fits on a frame whose target
\* was not its first row.
C1_Witness ==
    /\ InPredictPrice /\ returned = "tuple" /\ target_id = 2
    /\ Len(fits) >= 3 /\ IsTarget(Chosen)

\* C2 (as claimed): when no row of the retrieved frame matches the target
\* (the empty frame included), predict_price picks no target and returns no
\* prediction.
C2_NoMatchIsAnError ==
    (InPredictPrice /\ pc \notin {"start", "credentials", "connect", "conditions",
                                  "query", "close", "identify"}
        /\ Matches = {})
    => target_id = 0 /\ returned # "tuple"

\* C3 (as claimed): when get_training_samples returns, the frame holds the
\* target row whenever the data source holds it.
C3_TargetRowReturned ==
    (InPredictPrice /\ pc = "identify" /\ \E p \in 1..Len(db) : IsTarget(db[p]))
    => Matches # {}

\* C4 (as claimed): predict_price never raises to its caller; it returns None
\* after printing a diagnostic, or the 4-tuple when no step failed.
C4_NeverRaises ==
    InPredictPrice =>
        /\ returned # "raised"
        /\ returned = "None" => printed # ""
        /\ returned = "tuple" => exc = "none"

\* C5 (as claimed): when the request has returned, no connection it opened is
\* still open.
C5_ConnectionClosed ==
    (InPredictPrice /\ pc = "done") => conn # "open"

ExplainedVariance == CumSum(evr)

\* C6 (as claimed): the selected cutoff k has cumulative ratio above the
\* threshold, and no smaller count has.
C6_CutoffIsSmallestExceeding ==
    returned = "matrix" =>
        /\ ExplainedVariance[cutoff] > threshold
        /\ \A j \in 1..(cutoff - 1) : ~(ExplainedVariance[j] > threshold)

\* C6 (amended): when some cumulative ratio exceeds the threshold, the cutoff
\* is the smallest count whose cumulative ratio does; when none does, the
\* cutoff is 1.
C6_CutoffAmended ==
    returned = "matrix" =>
        IF \E j \in 1..Len(evr) : ExplainedVariance[j] > threshold
        THEN /\ ExplainedVariance[cutoff] > threshold
             /\ \A j \in 1..(cutoff - 1) : ~(ExplainedVariance[j] > threshold)
        ELSE cutoff = 1

\* C6 witness: a cutoff above 1 was selected, the first component alone not
\* exceeding the threshold.
C6_Witness ==
    /\ returned = "matrix" /\ cutoff = 2
    /\ ExplainedVariance[2] > threshold /\ ExplainedVariance[1] = threshold

\* C7 (as claimed): with a zero among the prices, cross_val ends in an error
\* and returns no average.
C7_ZeroPriceIsAnError ==
    (InCrossVal /\ pc = "done" /\ \E p \in 1..Len(prices) : prices[p].v = 0)
    => returned = "raised"

\* C8: with fewer than 2 samples cross_val ends in an error, returns no pair,
\* and no regression is ever fitted on an empty training set; predict_price
\* never gets past cross_val with fewer than 2 samples.
C8_TooFewSamplesIsAnError ==
    /\ \A k \in 1..Len(fits) : Len(fits[k].X) > 0 /\ Len(fits[k].y) > 0
    /\ (pc \in {"cv_init", "cv_loop", "fit", "done", "except"} /\ Len(prices) < 2) =>
          /\ returned \notin {"pair", "tuple"}
          /\ pc # "fit"
          /\ fits = <<>>
          /\ (InCrossVal /\ pc = "done") => returned = "raised"

\* C8 witness: cross_val was called with one sample and raised at the fit.
C8_Witness ==
    /\ InCrossVal /\ Len(prices) = 1 /\ pc = "done"
    /\ returned = "raised" /\ exc = "ValueError"

CrossValFits == SelectSeq(fits, LAMBDA f : f.by = "cross_val")

Others(arr, i) == {arr[p] : p \in 1..Len(arr) \ {i}}

Range(arr) == {arr[p] : p \in 1..Len(arr)}

\* C9: in cross_val with N >= 2, the i-th fit holds out sample i: it is
\* fitted on exactly the other N-1 feature rows and the other N-1 prices,
\* row by row the same samples; predictions[i] and the i-th error are those
\* of sample i under that fit; the returned average times N is the sum of
\* the N errors.
C9_LeaveOneOut ==
    (pc \in {"cv_loop", "fit", "done"} /\ Len(prices) >= 2 /\ cv_i >= 1) =>
        /\ Len(CrossValFits) = cv_i - 1
        /\ Len(percentage_errors) = cv_i - 1
        /\ \A i \in 1..Len(CrossValFits) :
              LET f == CrossValFits[i]
                  params == FitRegularized(f.y, f.X, args.penalty)
              IN /\ f.held = i
                 /\ Len(f.X) = Len(features) - 1
                 /\ Len(f.y) = Len(prices) - 1
                 /\ Range(f.X) = Others(features, i)
                 /\ Range(f.y) = Others(prices, i)
                 /\ RowsOf(f.X) = RowsOf(f.y)
                 /\ predictions[i] = Predict(params, features[i])
                 /\ percentage_errors[i] = PercentageError(predictions[i], prices[i].v)
        /\ (InCrossVal /\ returned = "pair") =>
              /\ cv_i = Len(prices) + 1
              /\ FMulInt(result.avg_pct_error, Len(prices)) =
                    FSum(percentage_errors, Len(prices))

\* C9 witness: cross_val returned its pair for three samples.
C9_Witness ==
    /\ InCrossVal /\ returned = "pair" /\ Len(prices) = 3 /\ Len(CrossValFits) = 3

\* C10 (as claimed): the row chosen as the target matches the target whenever
\* the frame holds a matching row, and a row with close coordinates but
\* another date is never the row chosen.
C10_DateMatchedExactly ==
    Identified =>
        /\ Matches # {} => IsTarget(Chosen)
        /\ ~(CloseCoordinates(Chosen) /\ Chosen.date_of_transfer # args.date.v)

====
